---- MODULE Spec2Model ----
(***************************************************************************)
(* Model of the mathforces extraction scripts.                             *)
(*                                                                         *)
(*   extractImage.py : iou, contained_ratio, merge_boxes and the page loop *)
(*                     (detect -> merge -> sort -> pad/clamp -> export)    *)
(*   extractWEB.py   : choose_src_from_srcset and its caller               *)
(*   extractPDF.py   : the page loop that splits the text into problems,   *)
(*                     the truncation and the LaTeX writer                 *)
(*                                                                         *)
(* A rectangle is a tuple <<x1, y1, x2, y2>> as in the source.  A contour  *)
(* is represented by its cv2.boundingRect <<x, y, w, h>>.                  *)
(*                                                                         *)
(* A string is a tuple of one-character strings; None and "" are both <<>> *)
(* (the source only tests them for truth).  A srcset is held as the tuple  *)
(* of its comma-separated pieces, each piece as the tuple of its           *)
(* whitespace-separated tokens: srcset.split(","), p.strip(), p.split().   *)
(*                                                                         *)
(* The Python floats are compared exactly: inter / union >= 0.30 and       *)
(* ia / oa >= 0.90 are quotients of integers below 2^31 compared with a    *)
(* two-digit decimal, so the correctly rounded double quotient is on the   *)
(* same side of the literal as the rational quotient; they are modelled as *)
(* the integer comparisons 100 * num >= pct * den.                         *)
(***************************************************************************)
EXTENDS Integers, Sequences, FiniteSets, TLC

VARIABLES
    \* ---- merge_boxes run on its own (extractImage.py:48-96)
    mIn,        \* the Candidate Set handed to merge_boxes (a list)
    mRects,     \* local variable rects
    mChanged,   \* local variable changed
    mPc,        \* position in merge_boxes: "idle", "start", "loop", "done"
    mRound,     \* 1: merge_boxes(S); 2: merge_boxes(merge_boxes(S))
    mFirst,     \* the list returned by the first call
    mPasses,    \* passes of the while loop made by the current call
    \* ---- the page loop of extractImage.py (lines 98-171)
    doc_len,    \* len(doc)
    page_idx,   \* loop variable page_idx
    ipc,        \* position in the loop body
    W, H,       \* img.shape[1], img.shape[0] of the raster being processed
    contours,   \* cv2.findContours result, as bounding rects, in detector order
    rects,      \* local variable rects of the page loop
    exp_i,      \* enumerate index i of the export loop
    crops,      \* files written for the current page: name, crop box, source box
    files,      \* names of all files written to OUTPUT_DIR so far
    diagram_count,
    \* ---- extractWEB.py: one <img> tag resolved by extract_diagrams_from_block
    imgSrc,     \* img.get("src") or one of the lazy attributes
    imgSrcset,  \* img.get("srcset")
    wpc,        \* "img", "resolved", "skipped", "fetch"
    src,        \* local variable src
    \* ---- extractPDF.py (lines 13-69)
    pdf_len,    \* len(doc)
    page_num,   \* loop variable page_num
    problems,   \* list of {"ProblemNumber", "Text", "Images"}
    problem_number,
    ppc,        \* "pages", "truncate", "write", "written"
    tex         \* the problems written to OUTPUT_TEX, in order

mvars == <<mIn, mRects, mChanged, mPc, mRound, mFirst, mPasses>>
ivars == <<doc_len, page_idx, ipc, W, H, contours, rects, exp_i, crops, files,
           diagram_count>>
wvars == <<imgSrc, imgSrcset, wpc, src>>
pvars == <<pdf_len, page_num, problems, problem_number, ppc, tex>>
vars == <<mvars, ivars, wvars, pvars>>

----------------------------------------------------------------------------
(* Tunables of extractImage.py *)

MIN_W == 80
MIN_H == 80
PAD_SCALE_PCT == 12
PAD_PX_MIN == 40
MERGE_GAP == 40
IOU_TO_MERGE_PCT == 30
CONTAINED_RATIO_PCT == 90
TOP_SKIP_RATIO_P2_PCT == 35

(* Bounds of the model *)

MaxCand == 3        \* longest Candidate Set / contour list
MaxPages == 3       \* longest document
MaxParts == 3       \* most comma-separated parts of a srcset

----------------------------------------------------------------------------
(* Generic helpers *)

Max(a, b) == IF a >= b THEN a ELSE b
Min(a, b) == IF a <= b THEN a ELSE b
Range(s) == {s[i] : i \in 1..Len(s)}
SeqsUpTo(S, n) == UNION {[1..k -> S] : k \in 0..n}
Perms(s) ==
    {[i \in 1..Len(s) |-> s[p[i]]] :
        p \in {q \in [1..Len(s) -> 1..Len(s)] : \A i, j \in 1..Len(s) : q[i] = q[j] => i = j}}

Area(r) == (r[3] - r[1]) * (r[4] - r[2])

----------------------------------------------------------------------------
(* extractImage.py: iou, contained_ratio *)

\* iou(a, b) as the fraction <<numerator, denominator>>; 0.0 is <<0, 1>>
iou(a, b) ==
    LET iw == Max(0, Min(a[3], b[3]) - Max(a[1], b[1]))
        ih == Max(0, Min(a[4], b[4]) - Max(a[2], b[2]))
        inter == iw * ih
    IN  IF inter = 0 THEN <<0, 1>>
        ELSE <<inter, Area(a) + Area(b) - inter>>

\* contained_ratio(inner, outer) as the fraction <<numerator, denominator>>
contained_ratio(inner, outer) ==
    IF /\ inner[1] >= outer[1] /\ inner[2] >= outer[2]
       /\ inner[3] <= outer[3] /\ inner[4] <= outer[4]
    THEN <<Area(inner), Max(Area(outer), 1)>>
    ELSE <<0, 1>>

\* frac >= pct / 100, for a fraction with a positive denominator
FracGE(frac, pct) == 100 * frac[1] >= pct * frac[2]

----------------------------------------------------------------------------
(* extractImage.py: merge_boxes, containment elimination (lines 50-61) *)

\* sorted(rects, key=area, reverse=True): the sort is stable, so rs[i] comes
\* after every larger entry and after every equal entry that preceded it
AreaRank(rs, i) ==
    1 + Cardinality({j \in 1..Len(rs) :
            \/ Area(rs[j]) > Area(rs[i])
            \/ Area(rs[j]) = Area(rs[i]) /\ j < i})

SortByAreaDesc(rs) ==
    [k \in 1..Len(rs) |-> rs[CHOOSE i \in 1..Len(rs) : AreaRank(rs, i) = k]]

\* the inner for-loop of lines 54-58: does some other entry swallow rs[i]?
Dropped(rs, i) ==
    \E j \in 1..Len(rs) :
        j # i /\ FracGE(contained_ratio(rs[i], rs[j]), CONTAINED_RATIO_PCT)

\* lines 51-61: the entries that are not dropped, in list order
Keep(rs) ==
    LET kept == {i \in 1..Len(rs) : ~Dropped(rs, i)}
    IN  [k \in 1..Cardinality(kept) |->
            rs[CHOOSE i \in kept : Cardinality({j \in kept : j <= i}) = k]]

ContainmentElim(rs) == Keep(SortByAreaDesc(rs))

----------------------------------------------------------------------------
(* extractImage.py: merge_boxes, iterative union (lines 63-96) *)

\* line 83, second disjunct: a (the running union) and b are within MERGE_GAP
ExpandedOverlap(a, b) ==
    LET ex1 == a[1] - MERGE_GAP  ey1 == a[2] - MERGE_GAP
        ex2 == a[3] + MERGE_GAP  ey2 == a[4] + MERGE_GAP
        fx1 == b[1] - MERGE_GAP  fy1 == b[2] - MERGE_GAP
        fx2 == b[3] + MERGE_GAP  fy2 == b[4] + MERGE_GAP
    IN  ~ (\/ ex2 < b[1] \/ fx2 < a[1] \/ ex1 > b[3] \/ fx1 > a[3]
           \/ ey2 < b[2] \/ fy2 < a[2] \/ ey1 > b[4] \/ fy1 > a[4])

\* line 83: ri is rects[i] as stored, a the running union, b is rects[j]
ShouldUnionIouOnly(ri, a, b) == FracGE(iou(ri, b), IOU_TO_MERGE_PCT)
ShouldUnion(ri, a, b) ==
    FracGE(iou(ri, b), IOU_TO_MERGE_PCT) \/ ExpandedOverlap(a, b)

\* lines 85-87
UnionBox(a, b) ==
    <<Min(a[1], b[1]), Min(a[2], b[2]), Max(a[3], b[3]), Max(a[4], b[4])>>

\* line 88: used[j] = True
MarkUsedDropped(used, j) == used
MarkUsed(used, j) == [used EXCEPT ![j] = TRUE]

\* line 90: changed = True
ChangedForgotten == FALSE
ChangedOnUnion == TRUE

RECURSIVE InnerLoop(_, _, _, _, _, _)
\* lines 74-90: for j in range(i+1, len(rects))
InnerLoop(rs, i, j, a, used, ch) ==
    IF j > Len(rs) THEN [a |-> a, used |-> used, changed |-> ch]
    ELSE IF used[j] THEN InnerLoop(rs, i, j + 1, a, used, ch)
    ELSE IF ShouldUnion(rs[i], a, rs[j])
         THEN InnerLoop(rs, i, j + 1, UnionBox(a, rs[j]), MarkUsed(used, j),
                        ChangedOnUnion)
         ELSE InnerLoop(rs, i, j + 1, a, used, ch)

RECURSIVE OuterLoop(_, _, _, _, _)
\* lines 70-92: for i in range(len(rects))
OuterLoop(rs, i, used, new_rects, ch) ==
    IF i > Len(rs) THEN [rects |-> new_rects, changed |-> ch]
    ELSE IF used[i] THEN OuterLoop(rs, i + 1, used, new_rects, ch)
    ELSE LET r == InnerLoop(rs, i, i + 1, rs[i], used, ch)
         IN  OuterLoop(rs, i + 1, [r.used EXCEPT ![i] = TRUE],
                       Append(new_rects, r.a), r.changed)

\* one iteration of the while loop, lines 66-94
MergePass(rs) == OuterLoop(rs, 1, [k \in 1..Len(rs) |-> FALSE], <<>>, FALSE)

RECURSIVE MergeLoop(_)
\* while changed: ... (lines 64-96)
MergeLoop(rs) ==
    LET p == MergePass(rs)
    IN  IF p.changed THEN MergeLoop(p.rects) ELSE p.rects

merge_boxes(rs) == MergeLoop(ContainmentElim(rs))

----------------------------------------------------------------------------
(* The rasters and contours the model draws from *)

\* bounding rects <<x, y, w, h>> a contour can have on a 300 x 400 raster
ContourUniverse ==
    { <<0, 0, 80, 80>>,        \* A
      <<0, 0, 80, 88>>,        \* A with a margin: A is 90.9% of it
      <<120, 0, 80, 80>>,      \* B: 40 px right of A
      <<220, 0, 80, 80>>,      \* C: 20 px right of B, 140 px right of A
      <<0, 0, 200, 200>>,      \* a large box holding A and B
      <<0, 121, 80, 80>>,      \* D: 41 px below A
      <<220, 300, 80, 100>>,   \* E: in the bottom right corner
      <<40, 40, 100, 100>>,    \* F: overlaps A
      <<10, 10, 40, 40>>,      \* a speck
      <<220, 300, 79, 100>>,   \* too narrow by one pixel
      <<0, 200, 200, 40>> }    \* wide but too low

\* <<width, height>> of the pixmap a page renders to (to_pix, lines 22-25)
PageRaster == <<300, 400>>

ToBox(c) == <<c[1], c[2], c[1] + c[3], c[2] + c[4]>>

\* the contours the page loop draws from: A, B, C, E and the narrow one
PageContours ==
    { <<0, 0, 80, 80>>, <<120, 0, 80, 80>>, <<220, 0, 80, 80>>,
      <<220, 300, 80, 100>>, <<220, 300, 79, 100>> }

\* boundingRect lies within the image it was computed on
ContoursIn(w, h) == {c \in PageContours : c[1] + c[3] <= w /\ c[2] + c[4] <= h}

RECURSIVE Detect(_, _, _)
\* lines 140-147: keep the contours at least min_w wide and min_h high
Detect(cs, min_w, min_h) ==
    IF cs = <<>> THEN <<>>
    ELSE IF Head(cs)[3] < min_w \/ Head(cs)[4] < min_h
         THEN Detect(Tail(cs), min_w, min_h)
         ELSE <<ToBox(Head(cs))>> \o Detect(Tail(cs), min_w, min_h)

\* the boxes the page loop can hand to merge_boxes
Boxes == {ToBox(c) : c \in {d \in ContourUniverse : d[3] >= MIN_W /\ d[4] >= MIN_H}}

----------------------------------------------------------------------------
(* merge_boxes as a state machine: one action per pass of the while loop *)

InitMerge ==
    /\ mIn = <<>>
    /\ mRects = <<>>
    /\ mChanged = FALSE
    /\ mPc = "idle"
    /\ mRound = 1
    /\ mFirst = <<>>
    /\ mPasses = 0
    /\ doc_len = 0 /\ page_idx = 0 /\ ipc = "idle" /\ W = 0 /\ H = 0
    /\ contours = <<>> /\ rects = <<>> /\ exp_i = 0 /\ crops = <<>>
    /\ files = {} /\ diagram_count = 0
    /\ imgSrc = <<>> /\ imgSrcset = <<>> /\ wpc = "idle" /\ src = <<>>
    /\ pdf_len = 0 /\ page_num = 0 /\ problems = <<>> /\ problem_number = 0
    /\ ppc = "idle" /\ tex = <<>>

\* line 48: merge_boxes is called with a Candidate Set
Call ==
    /\ mPc = "idle"
    /\ mIn' \in SeqsUpTo(Boxes, MaxCand)
    /\ mRects' = mIn'
    /\ mPc' = "start"
    /\ UNCHANGED <<mChanged, mRound, mFirst, mPasses>>

\* lines 50-64
Eliminate ==
    /\ mPc = "start"
    /\ mRects' = ContainmentElim(mRects)
    /\ mChanged' = TRUE
    /\ mPc' = "loop"
    /\ UNCHANGED <<mIn, mRound, mFirst, mPasses>>

\* lines 65-94: one pass of the while loop
Pass ==
    /\ mPc = "loop" /\ mChanged
    /\ LET p == MergePass(mRects)
       IN  /\ mRects' = p.rects
           /\ mChanged' = p.changed
    /\ mPasses' = mPasses + 1
    /\ UNCHANGED <<mIn, mPc, mRound, mFirst>>

\* line 96
Return ==
    /\ mPc = "loop" /\ ~mChanged
    /\ mPc' = "done"
    /\ UNCHANGED <<mIn, mRects, mChanged, mRound, mFirst, mPasses>>

\* the returned list is handed to merge_boxes again
MergeAgain ==
    /\ mPc = "done" /\ mRound = 1
    /\ mFirst' = mRects
    /\ mRound' = 2
    /\ mPc' = "start"
    /\ mPasses' = 0
    /\ UNCHANGED <<mIn, mRects, mChanged>>

NextMerge ==
    \/ Call /\ UNCHANGED <<ivars, wvars, pvars>>
    \/ Eliminate /\ UNCHANGED <<ivars, wvars, pvars>>
    \/ Pass /\ UNCHANGED <<ivars, wvars, pvars>>
    \/ Return /\ UNCHANGED <<ivars, wvars, pvars>>
    \/ MergeAgain /\ UNCHANGED <<ivars, wvars, pvars>>

SpecMerge == InitMerge /\ [][NextMerge]_vars


----------------------------------------------------------------------------
(* Properties of merge_boxes *)

\* r lies inside s (closed rectangles)
Inside(r, s) == r[1] >= s[1] /\ r[2] >= s[2] /\ r[3] <= s[3] /\ r[4] <= s[4]

Grow(r, g) == <<r[1] - g, r[2] - g, r[3] + g, r[4] + g>>

\* the closed rectangles p and q share a point
Intersects(p, q) == p[1] <= q[3] /\ q[1] <= p[3] /\ p[2] <= q[4] /\ q[2] <= p[4]

FirstCallDone == mPc = "done" /\ mRound = 1
SecondCallDone == mPc = "done" /\ mRound = 2

\* C1: a rectangle of the Candidate Set that lies fully inside a different
\* rectangle of the Candidate Set is not an element of the Merged Set.
C1_ContainedAbsent ==
    FirstCallDone =>
        \A i, j \in 1..Len(mIn) :
            (mIn[i] # mIn[j] /\ Inside(mIn[i], mIn[j])) => mIn[i] \notin Range(mRects)

\* C2: the returned list is a fixed point of the union rule: no two entries
\* have IoU >= IOU_TO_MERGE and no entry grown by MERGE_GAP meets another.
C2_FixedPoint ==
    mPc = "done" =>
        \A i, j \in 1..Len(mRects) :
            i # j =>
                /\ ~ FracGE(iou(mRects[i], mRects[j]), IOU_TO_MERGE_PCT)
                /\ ~ Intersects(Grow(mRects[i], MERGE_GAP), mRects[j])

\* a union was made and two regions remain
C2_Witness ==
    /\ FirstCallDone
    /\ Len(mIn) = 3 /\ Len(mRects) = 2
    /\ \E k \in 1..2 : mRects[k] \notin Range(mIn)

\* C3: every rectangle of the Candidate Set lies inside some rectangle of the
\* Merged Set (so a non-empty Candidate Set gives a non-empty Merged Set).
C3_Covers ==
    FirstCallDone =>
        \A i \in 1..Len(mIn) : \E k \in 1..Len(mRects) : Inside(mIn[i], mRects[k])

\* C4: merge_boxes returns the same set of rectangles for every permutation
\* of the Candidate Set.
C4_OrderIndependent ==
    FirstCallDone =>
        \A p \in Perms(mIn) : Range(merge_boxes(p)) = Range(mRects)

\* three candidates of which one pass in list order leaves two, the loop one
C4_Witness ==
    /\ FirstCallDone
    /\ Len(mIn) = 3 /\ Len(mRects) = 1
    /\ Len(MergePass(ContainmentElim(mIn)).rects) = 2

\* C5: merging the Merged Set again returns the same set of rectangles.
C5_Idempotent ==
    SecondCallDone => Range(mRects) = Range(mFirst)

\* the second call has returned, on a list that the first call had united
C5_Witness ==
    /\ SecondCallDone
    /\ Len(mFirst) = 2 /\ Len(mIn) = 3
    /\ \E k \in 1..2 : mFirst[k] \notin Range(mIn)

\* a pass only merges: every old rectangle lies inside a new one, and every
\* new one is the bounding box of the old rectangles inside it
OnlyMerges(old, new) ==
    /\ \A i \in 1..Len(old) : \E k \in 1..Len(new) : Inside(old[i], new[k])
    /\ \A k \in 1..Len(new) :
        LET inside == {i \in 1..Len(old) : Inside(old[i], new[k])}
        IN  /\ inside # {}
            /\ \A c \in 1..4 : \E i \in inside : old[i][c] = new[k][c]

PassStep ==
    /\ (mPc = "loop" /\ mChanged) =>
           /\ OnlyMerges(mRects, mRects')
           /\ mChanged' => Len(mRects') < Len(mRects)
           /\ ~mChanged' => mRects' = mRects
    /\ (mPc = "loop" /\ ~mChanged) => mPc' = "done"

\* the list the current call of merge_boxes was given
CallInput == IF mRound = 1 THEN mIn ELSE mFirst

\* the rectangle count bounds the loop: every pass but the last removes a
\* rectangle from the list that containment elimination left
PassesBounded ==
    mPc \in {"loop", "done"} =>
        mPasses + Len(mRects) <= Len(ContainmentElim(CallInput)) + 1

\* C6: the union loop terminates: a pass only merges, a pass that makes a
\* union ends with fewer rectangles, the loop is left after the first pass
\* without a union, and the number of passes is bounded by the number of
\* rectangles.
C6_Terminates ==
    /\ [][PassStep]_vars
    /\ []PassesBounded

\* a second pass is about to unite what the first pass produced
C6_Witness ==
    /\ mPc = "loop" /\ mChanged /\ mRound = 1
    /\ Len(mRects) < Len(ContainmentElim(mIn))
    /\ MergePass(mRects).changed

----------------------------------------------------------------------------
(* extractImage.py: the page loop (lines 98-171) *)

\* int(x * pct / 100) for x >= 0; for the heights and box sizes of the model
\* the truncated double product equals the exact floor
IntScale(x, pct) == (x * pct) \div 100

\* lines 114-118: rows cut from the top of page 2
TopCut(idx, h) == IF idx = 1 THEN IntScale(h, TOP_SKIP_RATIO_P2_PCT) ELSE 0

\* lists without repetition: the external contours of distinct connected
\* components have distinct bounding rects
InjSeqs(S, n) ==
    {q \in SeqsUpTo(S, n) : \A i, j \in 1..Len(q) : q[i] = q[j] => i = j}

\* rects.sort(key=lambda r: (r[1], r[0])): a stable ascending sort
YXBefore(p, q) == p[2] < q[2] \/ (p[2] = q[2] /\ p[1] < q[1])
YXSame(p, q) == p[2] = q[2] /\ p[1] = q[1]

YXRank(rs, i) ==
    1 + Cardinality({j \in 1..Len(rs) :
            YXBefore(rs[j], rs[i]) \/ (YXSame(rs[j], rs[i]) /\ j < i)})

SortYXSkipped(rs) == rs
SortYX(rs) ==
    [k \in 1..Len(rs) |-> rs[CHOOSE i \in 1..Len(rs) : YXRank(rs, i) = k]]

\* line 157
Pad(r) == IntScale(Max(r[3] - r[1], r[4] - r[2]), PAD_SCALE_PCT) + PAD_PX_MIN

\* lines 160-163
ClampLow(v) == Max(0, v)
ClampHighSkipped(limit, v) == v
ClampHigh(limit, v) == Min(limit, v)

\* lines 160-163 for a given pad
PaddedBox(r, pad, w, h) ==
    <<ClampLow(r[1] - pad), ClampLow(r[2] - pad),
      ClampHigh(w, r[3] + pad), ClampHigh(h, r[4] + pad)>>

\* lines 156-163
CropBox(r, w, h) == PaddedBox(r, Pad(r), w, h)

\* line 167: f"page{page_idx+1}_diagram{i}.png"
OutName(idx, i) == <<"page", idx + 1, "_diagram", i, ".png">>

InitImage ==
    /\ doc_len \in 1..MaxPages
    /\ page_idx = 0
    /\ ipc = "page"
    /\ W = 0 /\ H = 0
    /\ contours = <<>> /\ rects = <<>> /\ exp_i = 0 /\ crops = <<>>
    /\ files = {} /\ diagram_count = 0
    /\ mIn = <<>> /\ mRects = <<>> /\ mChanged = FALSE /\ mPc = "idle"
    /\ mRound = 1 /\ mFirst = <<>> /\ mPasses = 0
    /\ imgSrc = <<>> /\ imgSrcset = <<>> /\ wpc = "idle" /\ src = <<>>
    /\ pdf_len = 0 /\ page_num = 0 /\ problems = <<>> /\ problem_number = 0
    /\ ppc = "idle" /\ tex = <<>>

\* lines 101-104
SkipFirstPage ==
    /\ ipc = "page" /\ page_idx < doc_len /\ page_idx = 0
    /\ page_idx' = page_idx + 1
    /\ UNCHANGED <<doc_len, ipc, W, H, contours, rects, exp_i, crops, files,
                   diagram_count>>

\* lines 106-147: render, cut the top of page 2, find contours, filter by size
DetectPage ==
    /\ ipc = "page" /\ page_idx < doc_len /\ page_idx # 0
    /\ W' = PageRaster[1]
    /\ H' = PageRaster[2] - TopCut(page_idx, PageRaster[2])
    /\ contours' \in InjSeqs(ContoursIn(W', H'), MaxCand)
    /\ rects' = Detect(contours', MIN_W, MIN_H)
    /\ crops' = <<>>
    /\ exp_i' = 0
    /\ ipc' = "merge"
    /\ UNCHANGED <<doc_len, page_idx, files, diagram_count>>

\* line 150
MergePage ==
    /\ ipc = "merge"
    /\ rects' = merge_boxes(rects)
    /\ ipc' = "sort"
    /\ UNCHANGED <<doc_len, page_idx, W, H, contours, exp_i, crops, files,
                   diagram_count>>

\* line 153
SortPage ==
    /\ ipc = "sort"
    /\ rects' = SortYX(rects)
    /\ exp_i' = 1
    /\ ipc' = "export"
    /\ UNCHANGED <<doc_len, page_idx, W, H, contours, crops, files, diagram_count>>

\* lines 155-169: one iteration of the export loop
ExportOne ==
    /\ ipc = "export" /\ exp_i <= Len(rects)
    /\ LET name == OutName(page_idx, exp_i)
       IN  /\ crops' = Append(crops, [name |-> name,
                                       crop |-> CropBox(rects[exp_i], W, H),
                                       box |-> rects[exp_i]])
           /\ files' = files \cup {name}
    /\ diagram_count' = diagram_count + 1
    /\ exp_i' = exp_i + 1
    /\ UNCHANGED <<doc_len, page_idx, ipc, W, H, contours, rects>>

\* the export loop is exhausted: back to line 101 with the next page
PageFinished == ipc = "export" /\ exp_i > Len(rects)

\* the page's raster, contours and boxes are dead once its loop body ends
NextPage ==
    /\ PageFinished
    /\ page_idx' = page_idx + 1
    /\ ipc' = "page"
    /\ W' = 0 /\ H' = 0
    /\ contours' = <<>> /\ rects' = <<>> /\ exp_i' = 0 /\ crops' = <<>>
    /\ UNCHANGED <<doc_len, files, diagram_count>>

\* line 171
Finish ==
    /\ ipc = "page" /\ page_idx >= doc_len
    /\ ipc' = "done"
    /\ UNCHANGED <<doc_len, page_idx, W, H, contours, rects, exp_i, crops, files,
                   diagram_count>>

NextImage ==
    \/ SkipFirstPage /\ UNCHANGED <<mvars, wvars, pvars>>
    \/ DetectPage /\ UNCHANGED <<mvars, wvars, pvars>>
    \/ MergePage /\ UNCHANGED <<mvars, wvars, pvars>>
    \/ SortPage /\ UNCHANGED <<mvars, wvars, pvars>>
    \/ ExportOne /\ UNCHANGED <<mvars, wvars, pvars>>
    \/ NextPage /\ UNCHANGED <<mvars, wvars, pvars>>
    \/ Finish /\ UNCHANGED <<mvars, wvars, pvars>>

SpecImage == InitImage /\ [][NextImage]_vars

----------------------------------------------------------------------------
(* Properties of the page loop *)

\* c lies within the w x h raster and contains b
ClampedAround(c, b, w, h) ==
    /\ 0 <= c[1] /\ c[1] <= c[3] /\ c[3] <= w
    /\ 0 <= c[2] /\ c[2] <= c[4] /\ c[4] <= h
    /\ Inside(b, c)

\* paddings from none to more than the raster
PadValues == {0, 1, 39, 40, 76, 299, 300, 1000}

\* C7: every padded crop rectangle lies within the raster the regions were
\* detected on, 0 <= px1 <= px2 <= W and 0 <= py1 <= py2 <= H, and contains
\* the unpadded rectangle; so does the crop of every exported rectangle for
\* every other padding value.
C7_CropClamped ==
    \A k \in 1..Len(crops) :
        /\ ClampedAround(crops[k].crop, crops[k].box, W, H)
        /\ \A pad \in PadValues :
            ClampedAround(PaddedBox(crops[k].box, pad, W, H), crops[k].box, W, H)

\* a page with a crop whose requested padding passes the left and top edges
\* and one whose requested padding passes the right and bottom edges
C7_Witness ==
    /\ \E k \in 1..Len(crops) :
        crops[k].box[1] - Pad(crops[k].box) < 0 /\ crops[k].box[2] - Pad(crops[k].box) < 0
    /\ \E k \in 1..Len(crops) :
        crops[k].box[3] + Pad(crops[k].box) > W /\ crops[k].box[4] + Pad(crops[k].box) > H

\* the Merged Set of the current page for the detector order p
MergedSetOf(p) == Range(merge_boxes(Detect(p, MIN_W, MIN_H)))

\* C8: on each page the K-th file written is page<N>_diagram<K> and holds the
\* K-th rectangle, in ascending (y, x) order, of the Merged Set, whatever
\* order the detector listed the contours in; no name is written twice.
C8_NamingDeterministic ==
    /\ Cardinality(files) = diagram_count
    /\ \A k \in 1..Len(crops) : crops[k].name = OutName(page_idx, k)
    /\ PageFinished =>
        \A m \in {MergedSetOf(p) : p \in Perms(contours)} :
            /\ Len(crops) = Cardinality(m)
            /\ \A k \in 1..Len(crops) :
                /\ crops[k].box \in m
                /\ Cardinality({q \in m : YXBefore(q, crops[k].box)}) = k - 1

\* two files written on a later page although merge_boxes returned the two
\* regions in the other order
C8_Witness ==
    /\ PageFinished /\ page_idx >= 2 /\ files # {}
    /\ Len(crops) = 2
    /\ merge_boxes(Detect(contours, MIN_W, MIN_H)) = <<crops[2].box, crops[1].box>>

\* C9: a page yields zero diagrams only if detection with a smaller minimum
\* size finds nothing on it either.
C9_RetryBeforeZero ==
    (PageFinished /\ Len(crops) = 0) =>
        \E mw \in 1..(MIN_W - 1), mh \in 1..(MIN_H - 1) :
            Detect(contours, mw, mh) = <<>>

----------------------------------------------------------------------------
(* extractWEB.py: choose_src_from_srcset (lines 33-65) *)

Digits == {"0", "1", "2", "3", "4", "5", "6", "7", "8", "9"}

DigitVal(c) ==
    CASE c = "0" -> 0 [] c = "1" -> 1 [] c = "2" -> 2 [] c = "3" -> 3
      [] c = "4" -> 4 [] c = "5" -> 5 [] c = "6" -> 6 [] c = "7" -> 7
      [] c = "8" -> 8 [] c = "9" -> 9

\* length of the longest prefix of tok made of digits: the greedy \d+
DigitRun(tok) ==
    Cardinality({n \in 1..Len(tok) : \A k \in 1..n : tok[k] \in Digits})

RECURSIVE IntOf(_, _)
\* int() of the first n characters of tok
IntOf(tok, n) == IF n = 0 THEN 0 ELSE 10 * IntOf(tok, n - 1) + DigitVal(tok[n])

\* re.match(r"(\d+)<letter>", desc): digits, then the letter; what follows
\* the letter is not looked at.  <<matched, int(m.group(1))>>
MatchNum(desc, letter) ==
    LET n == DigitRun(desc)
    IN  IF n >= 1 /\ Len(desc) > n /\ desc[n + 1] = letter
        THEN <<TRUE, IntOf(desc, n)>>
        ELSE <<FALSE, 0>>

\* line 39: the pieces that are not blank
Parts(srcset) == SelectSeq(srcset, LAMBDA p : p # <<>>)

\* lines 43-64: the loop body for one part, on <<best_url, best_w>>
ChooseStep(best, toks) ==
    LET url_part == toks[1]
        m == IF Len(toks) > 1 THEN MatchNum(toks[2], "w") ELSE <<FALSE, 0>>
        m2 == IF Len(toks) > 1 THEN MatchNum(toks[2], "x") ELSE <<FALSE, 0>>
    IN  IF m[1]
        THEN IF m[2] > best[2] THEN <<url_part, m[2]>> ELSE best
        ELSE IF m2[1]
        THEN IF m2[2] * 1000 > best[2] THEN <<url_part, m2[2] * 1000>> ELSE best
        ELSE <<url_part, best[2]>>

RECURSIVE ChooseLoop(_, _, _)
\* lines 42-64: for p in parts
ChooseLoop(parts, i, best) ==
    IF i > Len(parts) THEN best
    ELSE ChooseLoop(parts, i + 1, ChooseStep(best, parts[i]))

\* best_url = None, best_w = -1, the loop, return best_url
choose_src_from_srcset(srcset) == ChooseLoop(Parts(srcset), 1, <<<<>>, -1>>)[1]

(* The srcset strings the model draws from *)

UrlTokens == {<<"a">>, <<"b">>}

DescTokens ==
    { <<"4", "w">>, <<"1", "0", "w">>,      \* 4w, 10w
      <<"2", "x">>,                         \* 2x
      <<"w">>,                              \* no number
      <<"1", ".", "5", "x">> }              \* 1.5x

Pieces ==
    {<<>>} \cup {<<u>> : u \in UrlTokens}
           \cup {<<u, d>> : u \in UrlTokens, d \in DescTokens}

(* extractWEB.py: extract_diagrams_from_block, one <img> (lines 200-208) *)

InitWeb ==
    /\ imgSrc \in {<<>>, <<"s">>}
    /\ imgSrcset \in SeqsUpTo(Pieces, MaxParts)
    /\ wpc = "img"
    /\ src = <<>>
    /\ mIn = <<>> /\ mRects = <<>> /\ mChanged = FALSE /\ mPc = "idle"
    /\ mRound = 1 /\ mFirst = <<>> /\ mPasses = 0
    /\ doc_len = 0 /\ page_idx = 0 /\ ipc = "idle" /\ W = 0 /\ H = 0
    /\ contours = <<>> /\ rects = <<>> /\ exp_i = 0 /\ crops = <<>>
    /\ files = {} /\ diagram_count = 0
    /\ pdf_len = 0 /\ page_num = 0 /\ problems = <<>> /\ problem_number = 0
    /\ ppc = "idle" /\ tex = <<>>

\* line 205: if srcset and not src
SrcsetUsed == imgSrcset # <<>> /\ imgSrc = <<>>

\* lines 203-206
ResolveSrc ==
    /\ wpc = "img"
    /\ src' = IF SrcsetUsed THEN choose_src_from_srcset(imgSrcset) ELSE imgSrc
    /\ wpc' = "resolved"
    /\ UNCHANGED <<imgSrc, imgSrcset>>

\* lines 207-208: if not src: continue
SkipImg ==
    /\ wpc = "resolved" /\ src = <<>>
    /\ wpc' = "skipped"
    /\ UNCHANGED <<imgSrc, imgSrcset, src>>

\* line 210 onwards: the image at src is saved
FetchImg ==
    /\ wpc = "resolved" /\ src # <<>>
    /\ wpc' = "fetch"
    /\ UNCHANGED <<imgSrc, imgSrcset, src>>

NextWeb ==
    \/ ResolveSrc /\ UNCHANGED <<mvars, ivars, pvars>>
    \/ SkipImg /\ UNCHANGED <<mvars, ivars, pvars>>
    \/ FetchImg /\ UNCHANGED <<mvars, ivars, pvars>>

SpecWeb == InitWeb /\ [][NextWeb]_vars

----------------------------------------------------------------------------
(* Properties of choose_src_from_srcset *)

\* the token is a width descriptor <n>w
IsWidthDesc(tok) ==
    /\ Len(tok) >= 2
    /\ tok[Len(tok)] = "w"
    /\ \A k \in 1..(Len(tok) - 1) : tok[k] \in Digits

\* the candidates of the srcset that carry a width descriptor
WidthCandidates ==
    {i \in 1..Len(imgSrcset) :
        Len(imgSrcset[i]) >= 2 /\ IsWidthDesc(imgSrcset[i][2])}

WidthOf(i) == IntOf(imgSrcset[i][2], Len(imgSrcset[i][2]) - 1)

\* C10: when a candidate of the srcset carries a width descriptor,
\* choose_src_from_srcset returns the URL of a candidate of largest width,
\* wherever that candidate stands and whatever the other candidates are.
C10_LargestWidthChosen ==
    (wpc # "img" /\ SrcsetUsed /\ WidthCandidates # {}) =>
        \E i \in WidthCandidates :
            /\ \A j \in WidthCandidates : WidthOf(j) <= WidthOf(i)
            /\ src = imgSrcset[i][1]

----------------------------------------------------------------------------
(* extractPDF.py: splitting the page text into problems (lines 13-50) *)

PROBLEM_LIMIT == 25     \* problems[:25]
LAST_PREFIX == 25       \* range(1, 26)

DigitChar(d) ==
    CASE d = 0 -> "0" [] d = 1 -> "1" [] d = 2 -> "2" [] d = 3 -> "3"
      [] d = 4 -> "4" [] d = 5 -> "5" [] d = 6 -> "6" [] d = 7 -> "7"
      [] d = 8 -> "8" [] d = 9 -> "9"

\* str(i) for 0 <= i <= 99
StrOf(i) == IF i < 10 THEN <<DigitChar(i)>> ELSE <<DigitChar(i \div 10), DigitChar(i % 10)>>

\* line 27: tuple(str(i) for i in range(1, 26))
NumberPrefixes == {StrOf(i) : i \in 1..LAST_PREFIX}

\* str.startswith(prefix)
StartsWith(line, pre) == Len(line) >= Len(pre) /\ SubSeq(line, 1, Len(pre)) = pre

\* line 27: line_stripped.startswith(tuple(...))
StartsWithNumber(line) == \E pre \in NumberPrefixes : StartsWith(line, pre)

\* line 26: line.strip(), for lines whose only whitespace is the blank
Strip(line) ==
    LET solid == {k \in 1..Len(line) : line[k] # " "}
    IN  IF solid = {} THEN <<>>
        ELSE SubSeq(line, CHOOSE a \in solid : \A k \in solid : a <= k,
                          CHOOSE b \in solid : \A k \in solid : k <= b)

\* lines 26-31: one line of the page, on [problems, problem_number]
SplitLine(st, line) ==
    LET line_stripped == Strip(line)
        n == Len(st.problems)
    IN  IF StartsWithNumber(line_stripped)
        THEN [problems |-> Append(st.problems,
                  [ProblemNumber |-> st.problem_number + 1,
                   Text |-> line_stripped, Images |-> <<>>]),
              problem_number |-> st.problem_number + 1]
        ELSE IF st.problem_number > 0
        THEN [st EXCEPT !.problems[n].Text = @ \o <<" ">> \o line_stripped]
        ELSE st

RECURSIVE SplitLines(_, _, _)
\* lines 25-31: for line in lines
SplitLines(st, lines, i) ==
    IF i > Len(lines) THEN st
    ELSE SplitLines(SplitLine(st, lines[i]), lines, i + 1)

\* line 42: f"{IMG_DIR}/q{problem_number}p{page_num+1}{img_index+1}.{img_ext}"
ImgFilename(pn, pg, img_index) == <<"q", pn, "p", pg + 1, img_index + 1>>

RECURSIVE AttachImages(_, _, _, _)
\* lines 35-47: for img_index, img in enumerate(images), img_index from k
AttachImages(st, pg, nimg, k) ==
    IF k >= nimg THEN st
    ELSE LET n == Len(st.problems)
             f == ImgFilename(st.problem_number, pg, k)
         IN  AttachImages(
                 IF n > 0
                 THEN [st EXCEPT !.problems[n].Images = Append(@, f)]
                 ELSE st,
                 pg, nimg, k + 1)

\* line 50: problems[:25]
Truncated(ps) == SubSeq(ps, 1, Min(PROBLEM_LIMIT, Len(ps)))

\* line 64: str.replace("", "\\") puts a backslash before every character
\* and one at the end
TexText(text) ==
    [k \in 1..(2 * Len(text) + 1) |-> IF k % 2 = 1 THEN "\\" ELSE text[k \div 2]]

\* lines 62-67: what the writer puts out for one problem
TexEntry(prob) ==
    [header |-> prob.ProblemNumber, body |-> TexText(prob.Text),
     graphics |-> prob.Images]

(* The pages the model draws from: page.get_text("text").split("\n") and the
   number of images on the page *)

NumberedLines(first, last) ==
    [k \in 1..(last - first + 1) |-> StrOf(first + k - 1) \o <<".">>]

PageTexts ==
    { << <<>> >>,                                     \* an empty page
      << <<"a">>, <<" ", "3", ".">>, <<"0", "5">> >>, \* one numbered line
      << <<"2", "6", " ", "x">>, <<"b">> >>,          \* a line starting 26
      NumberedLines(1, 13) }                          \* thirteen numbered lines

PdfPages == [lines : PageTexts, nimg : {0, 1}]

InitPDF ==
    /\ pdf_len \in 1..MaxPages
    /\ page_num = 1
    /\ problems = <<>>
    /\ problem_number = 0
    /\ ppc = "pages"
    /\ tex = <<>>
    /\ mIn = <<>> /\ mRects = <<>> /\ mChanged = FALSE /\ mPc = "idle"
    /\ mRound = 1 /\ mFirst = <<>> /\ mPasses = 0
    /\ doc_len = 0 /\ page_idx = 0 /\ ipc = "idle" /\ W = 0 /\ H = 0
    /\ contours = <<>> /\ rects = <<>> /\ exp_i = 0 /\ crops = <<>>
    /\ files = {} /\ diagram_count = 0
    /\ imgSrc = <<>> /\ imgSrcset = <<>> /\ wpc = "idle" /\ src = <<>>

\* lines 19-47: the loop body for page page_num
ProcessPage ==
    /\ ppc = "pages" /\ page_num < pdf_len
    /\ \E page \in PdfPages :
        LET st0 == [problems |-> problems, problem_number |-> problem_number]
            st1 == SplitLines(st0, page.lines, 1)
            st2 == AttachImages(st1, page_num, page.nimg, 0)
        IN  /\ problems' = st2.problems
            /\ problem_number' = st2.problem_number
    /\ page_num' = page_num + 1
    /\ UNCHANGED <<pdf_len, ppc, tex>>

\* the page loop is exhausted
PagesDone ==
    /\ ppc = "pages" /\ page_num >= pdf_len
    /\ ppc' = "truncate"
    /\ UNCHANGED <<pdf_len, page_num, problems, problem_number, tex>>

\* lines 49-50
Truncate ==
    /\ ppc = "truncate"
    /\ problems' = Truncated(problems)
    /\ ppc' = "write"
    /\ UNCHANGED <<pdf_len, page_num, problem_number, tex>>

\* lines 52-69
WriteTex ==
    /\ ppc = "write"
    /\ tex' = [k \in 1..Len(problems) |-> TexEntry(problems[k])]
    /\ ppc' = "written"
    /\ UNCHANGED <<pdf_len, page_num, problems, problem_number>>

NextPDF ==
    \/ ProcessPage /\ UNCHANGED <<mvars, ivars, wvars>>
    \/ PagesDone /\ UNCHANGED <<mvars, ivars, wvars>>
    \/ Truncate /\ UNCHANGED <<mvars, ivars, wvars>>
    \/ WriteTex /\ UNCHANGED <<mvars, ivars, wvars>>

SpecPDF == InitPDF /\ [][NextPDF]_vars

----------------------------------------------------------------------------
(* Properties of extractPDF.py *)

\* C11: once the LaTeX file is written it holds exactly 25 problems.
C11_Exactly25 ==
    ppc = "written" => Len(tex) = PROBLEM_LIMIT

====
